---- MODULE Spec2Model ----
(***************************************************************************)
(* The scrape loop of smartmeter-exporter (src/main.go, lines 309-674):    *)
(* main, runScrapeLoop, scrape and parseAndSetMetrics, together with the   *)
(* Prometheus metrics they write.  The goroutine of runScrapeLoop and the  *)
(* main goroutine are two processes; every blocking point of scrape (a     *)
(* device call, a time.Sleep) is a step of its own, so that ticks, the     *)
(* shutdown signal and the exit of the process interleave with a cycle.    *)
(***************************************************************************)
EXTENDS Integers, Sequences, FiniteSets, TLC

VARIABLES
    alive,            \* the OS process is running
    mainPc,           \* main goroutine: "config" | "parsed" | "wait" | "shutdown" |
                      \* "stopped" | "exited"
    intervalStr,      \* -interval / SMARTMETER_INTERVAL, a sequence of characters
    intervalSec,      \* the local variable intervalSec of main
    interval,         \* the parameter interval of runScrapeLoop, in nanoseconds
    reads,            \* GET /metrics requests served so far
    missed,           \* ticks the ticker dropped because ticker.C was full
    ctxDone,          \* ctx of runScrapeLoop has been cancelled
    serverUp,         \* the HTTP server accepts /metrics reads
    pc,               \* goroutine of runScrapeLoop
    tickPending,      \* ticker.C (capacity 1) holds a tick
    ticks,            \* ticks delivered into ticker.C so far
    IPAddr,           \* dev.IPAddr, "" when unknown
    powerGauge,       \* smartmeter_power_watts
    currentGauge,     \* smartmeter_current_amperes, by phase label
    lastSuccessGauge, \* smartmeter_last_scrape_timestamp_seconds
    scrapeDuration,   \* smartmeter_scrape_duration_seconds: [count, sum]
    scrapeErrors,     \* smartmeter_scrape_errors_total, by type label
    now,              \* the clock read by time.Now(), in seconds; it advances with
                      \* the device calls and sleeps of scrape, idle time is left out
    start,            \* the local variable start of the running scrape
    response,         \* the local variable response of the running scrape
    cycles,           \* calls of scrape so far
    successes,        \* calls of scrape that reached the success branch so far
    cyc               \* history of the current (or last) call of scrape

vars == <<alive, mainPc, ctxDone, serverUp, pc, tickPending, ticks, IPAddr,
          powerGauge, currentGauge, lastSuccessGauge, scrapeDuration,
          scrapeErrors, now, start, response, cycles, cyc,
          intervalStr, intervalSec, interval, reads, missed, successes>>

mainVars == <<mainPc, ctxDone, serverUp>>
cfgVars == <<intervalStr, intervalSec, interval>>
metricVars == <<powerGauge, currentGauge, lastSuccessGauge, scrapeErrors>>

-----------------------------------------------------------------------------
(* Bounds of the model *)

MaxCycles == 2      \* calls of scrape
MaxTicks == 2       \* ticks delivered by the ticker
IoSeconds == 1      \* the time a device call takes, in seconds

(* Program constants *)

reAuthCooldown == 5
postAuthCooldown == 2

errorTypeIPResolve == "ip_resolve"
errorTypeAuth == "auth"
errorTypeQuery == "query"
errorTypeParse == "parse"
ErrorTypes == {errorTypeIPResolve, errorTypeAuth, errorTypeQuery, errorTypeParse}

EpcPower == "InstantaneousElectricPower"
EpcCurrent == "InstantaneousCurrent"
EpcOther == "OtherProperty"

-----------------------------------------------------------------------------
(* The environment: what the device client can return *)

Addrs == {"FE80::1", "FE80::2"}
Delays == {IoSeconds}

EDTs == { <<>>, <<0, 100, 0>>, <<0, 0, 4, 176>>, <<0, 100, 0, 50>> }
Props == [EPC : {EpcPower, EpcCurrent}, EDT : EDTs] \cup [EPC : {EpcOther}, EDT : {<<1>>}]
Responses == {<<>>} \cup {<<p>> : p \in Props} \cup {<<p, q>> : p \in Props, q \in Props}

\* Responses that carry one recognized property with a payload of four bytes
PayloadBytes == {0, 1, 127, 128, 255}
FourByteResponses ==
    { <<[EPC |-> e, EDT |-> b]>> : e \in {EpcPower, EpcCurrent}, b \in [1..4 -> PayloadBytes] }

Outcomes == {"Success", "IPResolveFailure", "AuthFailure", "QueryFailure", "ParseFailure"}

-----------------------------------------------------------------------------
(* encoding/binary and float64 arithmetic, as parseAndSetMetrics uses them *)

\* binary.BigEndian.Uint32(b) panics (index out of range) when len(b) < 4
Uint32Panics(b) == Len(b) < 4
\* Uint32 that reads the least significant byte first
Uint32_LittleEndian(b) == [hi |-> b[4] * 256 + b[3], lo |-> b[2] * 256 + b[1]]

\* float64(binary.BigEndian.Uint32(b)): the number hi * 65536 + lo, kept as its
\* two 16-bit halves, since it may exceed the integers of the checker
Uint32(b) == [hi |-> b[1] * 256 + b[2], lo |-> b[3] * 256 + b[4]]

\* The value 0 of a gauge that was never set
GaugeZero == [hi |-> 0, lo |-> 0]

\* binary.BigEndian.Uint16(b) panics when len(b) < 2
Uint16Panics(b) == Len(b) < 2
Uint16(b) == b[1] * 256 + b[2]

\* p.EDT[:2] and p.EDT[2:]; p.EDT[2:] panics (slice bounds out of range)
\* when len(p.EDT) < 2, and p.EDT[:2] of a shorter slice is followed by it
SliceTo2(b) == SubSeq(b, 1, 2)
SliceFrom2(b) == SubSeq(b, 3, Len(b))
CurrentPanics(b) == Len(b) < 2 \/ Uint16Panics(SliceTo2(b)) \/ Uint16Panics(SliceFrom2(b))

\* float64(v) / 10.0 of a uint16 v, kept as a decimal with one fractional digit
DivTen(v) == [whole |-> v \div 10, tenths |-> v % 10]

\* GaugeVec.WithLabelValues(label).Set(v): the child is created on first use
SetLabel(g, label, v) == [l \in DOMAIN g \cup {label} |-> IF l = label THEN v ELSE g[l]]

\* CounterVec.WithLabelValues(type).Inc()
Inc(errs, type) == [errs EXCEPT ![type] = @ + 1]

\* ParseProperty with a default case that sets foundData
ParseProperty_CountsUnknown(p, m) ==
    CASE p.EPC = EpcPower ->
            IF Uint32Panics(p.EDT)
            THEN [m EXCEPT !.panicked = TRUE]
            ELSE [m EXCEPT !.power = Uint32(p.EDT), !.foundData = TRUE]
      [] p.EPC = EpcCurrent ->
            IF CurrentPanics(p.EDT)
            THEN [m EXCEPT !.panicked = TRUE]
            ELSE [m EXCEPT !.current =
                      SetLabel(SetLabel(m.current, "r", DivTen(Uint16(SliceTo2(p.EDT)))),
                               "t", DivTen(Uint16(SliceFrom2(p.EDT)))),
                           !.foundData = TRUE]
      [] OTHER -> [m EXCEPT !.foundData = TRUE]

\* One iteration of the loop of parseAndSetMetrics over response.Properties.
\* m = [power, current, foundData, panicked] is the state the loop has built.
ParseProperty(p, m) ==
    CASE p.EPC = EpcPower ->
            IF Uint32Panics(p.EDT)
            THEN [m EXCEPT !.panicked = TRUE]
            ELSE [m EXCEPT !.power = Uint32(p.EDT), !.foundData = TRUE]
      [] p.EPC = EpcCurrent ->
            IF CurrentPanics(p.EDT)
            THEN [m EXCEPT !.panicked = TRUE]
            ELSE [m EXCEPT !.current =
                      SetLabel(SetLabel(m.current, "r", DivTen(Uint16(SliceTo2(p.EDT)))),
                               "t", DivTen(Uint16(SliceFrom2(p.EDT)))),
                           !.foundData = TRUE]
      [] OTHER -> m

RECURSIVE ParseLoop(_, _)
ParseLoop(props, m) ==
    IF props = <<>> \/ m.panicked
    THEN m
    ELSE ParseLoop(Tail(props), ParseProperty(Head(props), m))

\* The properties the switch of parseAndSetMetrics has a case for
Recognized(props) == {i \in 1..Len(props) : props[i].EPC \in {EpcPower, EpcCurrent}}

-----------------------------------------------------------------------------
(* strconv.Atoi and the int64 arithmetic of time.Duration, as main uses them
   on the interval.  A number is the sequence of its base-256 digits, least
   significant first: twelve of them hold every value that occurs, the first
   eight are the 64 bits of an int or a time.Duration. *)

Zero96 == <<0, 0, 0, 0, 0, 0, 0, 0, 0, 0, 0, 0>>

\* n * k + a on the digits of n from position i on, for small k and a
RECURSIVE MulAddFrom(_, _, _, _)
MulAddFrom(n, k, a, i) ==
    IF i > Len(n)
    THEN <<>>
    ELSE <<(n[i] * k + a) % 256>> \o MulAddFrom(n, k, (n[i] * k + a) \div 256, i + 1)

MulAdd(n, k, a) == MulAddFrom(n, k, a, 1)

\* a < b, compared from the most significant digit down
RECURSIVE LessFrom(_, _, _)
LessFrom(a, b, i) ==
    IF i = 0 THEN FALSE
    ELSE IF a[i] # b[i] THEN a[i] < b[i]
    ELSE LessFrom(a, b, i - 1)

Less(a, b) == LessFrom(a, b, Len(a))

Small(v) == MulAdd(Zero96, 0, v)

\* The largest int of a 64-bit build, 1<<63 - 1
MaxInt64 == <<255, 255, 255, 255, 255, 255, 255, 127, 0, 0, 0, 0>>

DigitChars == <<"0", "1", "2", "3", "4", "5", "6", "7", "8", "9">>
IsDigit(c) == \E i \in 1..Len(DigitChars) : DigitChars[i] = c
DigitVal(c) == (CHOOSE i \in 1..Len(DigitChars) : DigitChars[i] = c) - 1

\* The value of a string of decimal digits
RECURSIVE DecimalFrom(_, _, _)
DecimalFrom(s, n, i) ==
    IF i > Len(s) THEN n ELSE DecimalFrom(s, MulAdd(n, 10, DigitVal(s[i])), i + 1)

\* strconv.Atoi(s): an optional sign, then one or more decimal digits; a
\* syntax error otherwise, a range error when the value is no int
Atoi(s) ==
    LET signed == s # <<>> /\ s[1] \in {"-", "+"}
        digits == IF signed THEN Tail(s) ELSE s
        neg == signed /\ s[1] = "-"
        mag == DecimalFrom(digits, Zero96, 1)
    IN  IF digits = <<>> \/ \E i \in 1..Len(digits) : ~IsDigit(digits[i])
        THEN [err |-> TRUE, neg |-> FALSE, mag |-> Zero96]
        ELSE IF Less(MaxInt64, mag) /\ ~(neg /\ mag = MulAdd(MaxInt64, 1, 1))
        THEN [err |-> TRUE, neg |-> neg, mag |-> mag]
        ELSE [err |-> FALSE, neg |-> neg, mag |-> mag]

\* if err != nil || intervalSec < 10 { intervalSec = 60 }
IntervalSec(s) ==
    LET a == Atoi(s)
    IN  IF a.err \/ a.neg \/ Less(a.mag, Small(10)) THEN Small(60) ELSE a.mag

\* n * 1e9, without a bound
Times1e9(n) == MulAdd(MulAdd(MulAdd(n, 1000, 0), 1000, 0), 1000, 0)

\* The 64 bits an int64 keeps of a number
Int64Bits(n) == SubSeq(n, 1, 8)
Int64Negative(b) == b[8] >= 128
Int64Positive(b) == ~Int64Negative(b) /\ \E i \in 1..Len(b) : b[i] # 0

\* time.Duration(intervalSec) * time.Second, in nanoseconds
Duration(sec) == Int64Bits(Times1e9(sec))

\* getEnv("SMARTMETER_INTERVAL", "60")
DefaultInterval == <<"6", "0">>

-----------------------------------------------------------------------------
\* The state in which main waits for a signal when the interval was left at
\* its default: the loop goroutine is about to run its first scrape
Init ==
    /\ alive = TRUE
    /\ mainPc = "wait"
    /\ intervalStr = DefaultInterval
    /\ intervalSec = IntervalSec(intervalStr)
    /\ interval = Duration(intervalSec)
    /\ reads = 0
    /\ missed = 0
    /\ successes = 0
    /\ ctxDone = FALSE
    /\ serverUp = TRUE
    /\ pc = "first"
    /\ tickPending = FALSE
    /\ ticks = 0
    /\ IPAddr \in {""} \cup Addrs          \* -ipaddr / SMARTMETER_IPADDR may fix it
    /\ powerGauge = GaugeZero
    /\ currentGauge = [l \in {} |-> 0]
    /\ lastSuccessGauge = 0
    /\ scrapeDuration = [count |-> 0, sum |-> 0]
    /\ scrapeErrors = [t \in ErrorTypes |-> 0]
    /\ now = 0
    /\ start = 0
    /\ response = <<>>
    /\ cycles = 0
    /\ cyc = [calls |-> <<>>, outcome |-> "None", gotResponse |-> FALSE,
              props |-> 0, recognized |-> 0,
              ctx0 |-> FALSE, ip0 |-> "", errs0 |-> [t \in ErrorTypes |-> 0],
              power0 |-> GaugeZero, current0 |-> [l \in {} |-> 0], last0 |-> 0, count0 |-> 0]

-----------------------------------------------------------------------------
(* scrape, step by step *)

InCycle == {"resolve", "query", "reAuthSleep", "auth", "postAuthSleep", "retry", "parse"}

\* BeginScrape that tries the address resolution in the first cycle only
BeginScrape_ResolvesOnce ==
    /\ start' = now
    /\ cycles' = cycles + 1
    /\ cyc' = [calls |-> <<>>, outcome |-> "None", gotResponse |-> FALSE,
               props |-> 0, recognized |-> 0,
               ctx0 |-> ctxDone, ip0 |-> IPAddr, errs0 |-> scrapeErrors,
               power0 |-> powerGauge, current0 |-> currentGauge,
               last0 |-> lastSuccessGauge, count0 |-> scrapeDuration.count]
    /\ pc' = IF IPAddr = "" /\ cycles = 0 THEN "resolve" ELSE "query"

\* The entry of scrape: start := time.Now(), and the test dev.IPAddr == ""
BeginScrape ==
    /\ start' = now
    /\ cycles' = cycles + 1
    /\ cyc' = [calls |-> <<>>, outcome |-> "None", gotResponse |-> FALSE,
               props |-> 0, recognized |-> 0,
               ctx0 |-> ctxDone, ip0 |-> IPAddr, errs0 |-> scrapeErrors,
               power0 |-> powerGauge, current0 |-> currentGauge,
               last0 |-> lastSuccessGauge, count0 |-> scrapeDuration.count]
    /\ pc' = IF IPAddr = "" THEN "resolve" ELSE "query"

\* A call of the device client or of time.Sleep, as the history records it
Call(op, ok, d) == [op |-> op, ok |-> ok, at |-> now, ret |-> now + d]

\* The deferred scrapeDuration.Observe(time.Since(start).Seconds())
Observe(h, t) == [count |-> h.count + 1, sum |-> h.sum + (t - start)]

\* scrape ends at time t with the outcome o: the deferred function observes
\* the duration, and control goes to next
End(o, t, h, next) ==
    /\ cyc' = [h EXCEPT !.outcome = o]
    /\ scrapeDuration' = Observe(scrapeDuration, t)
    /\ now' = t
    /\ pc' = next

\* Return without the deferred Observe
Return_NoObserve(o, call) ==
    /\ cyc' = [cyc EXCEPT !.calls = Append(@, call), !.outcome = o]
    /\ UNCHANGED scrapeDuration
    /\ now' = call.ret
    /\ pc' = "select"

\* scrape returns to runScrapeLoop after a failed call
Return(o, call) ==
    End(o, call.ret, [cyc EXCEPT !.calls = Append(@, call)], "select")

\* parseAndSetMetrics that leaves the timestamp alone when no reading changed
parseAndSetMetrics_SkipsUnchanged ==
    LET m == ParseLoop(response, [power |-> powerGauge, current |-> currentGauge,
                                  foundData |-> FALSE, panicked |-> FALSE])
    IN  /\ powerGauge' = m.power
        /\ currentGauge' = m.current
        /\ IF m.panicked
           THEN /\ UNCHANGED <<lastSuccessGauge, scrapeErrors, successes>>
                /\ End("Panic", now, cyc, "panicked")
                /\ alive' = FALSE
           ELSE /\ IF m.foundData
                   THEN /\ lastSuccessGauge' =
                               IF m.power = powerGauge /\ m.current = currentGauge
                               THEN lastSuccessGauge ELSE now
                        /\ successes' = successes + 1
                        /\ UNCHANGED scrapeErrors
                        /\ End("Success", now, cyc, "select")
                   ELSE /\ scrapeErrors' = Inc(scrapeErrors, errorTypeParse)
                        /\ UNCHANGED <<lastSuccessGauge, successes>>
                        /\ End("ParseFailure", now, cyc, "select")
                /\ UNCHANGED alive

\* parseAndSetMetrics(response, logger), and the return of scrape after it
parseAndSetMetrics ==
    LET m == ParseLoop(response, [power |-> powerGauge, current |-> currentGauge,
                                  foundData |-> FALSE, panicked |-> FALSE])
    IN  /\ powerGauge' = m.power
        /\ currentGauge' = m.current
        /\ IF m.panicked
           THEN \* an unrecovered panic: the deferred Observe runs, the process dies
                /\ UNCHANGED <<lastSuccessGauge, scrapeErrors, successes>>
                /\ End("Panic", now, cyc, "panicked")
                /\ alive' = FALSE
           ELSE /\ IF m.foundData
                   THEN /\ lastSuccessGauge' = now
                        /\ successes' = successes + 1
                        /\ UNCHANGED scrapeErrors
                        /\ End("Success", now, cyc, "select")
                   ELSE /\ scrapeErrors' = Inc(scrapeErrors, errorTypeParse)
                        /\ UNCHANGED <<lastSuccessGauge, successes>>
                        /\ End("ParseFailure", now, cyc, "select")
                /\ UNCHANGED alive

\* scrape goes on to its next blocking point after a call
Continue(call, next) ==
    /\ cyc' = [cyc EXCEPT !.calls = Append(@, call)]
    /\ now' = call.ret
    /\ pc' = next

loopRest == <<tickPending, ticks, start, cycles>>
scrapeRest == <<tickPending, ticks, start, response, cycles>>

\* A query returns err == nil: response holds the frame of the device
GotResponse(r, call) ==
    /\ response' = r
    /\ cyc' = [cyc EXCEPT !.calls = Append(@, call), !.gotResponse = TRUE,
                          !.props = Len(r), !.recognized = Cardinality(Recognized(r))]
    /\ now' = call.ret
    /\ pc' = "parse"

\* ResolveFail without its return statement: scrape falls through to the query
ResolveFail_FallsThrough ==
    /\ alive /\ pc = "resolve"
    /\ \E d \in Delays :
          /\ scrapeErrors' = Inc(scrapeErrors, errorTypeIPResolve)
          /\ Continue(Call("resolveAddress", FALSE, d), "query")
    /\ UNCHANGED <<alive, mainVars, cfgVars, reads, missed, successes, scrapeRest, IPAddr, powerGauge, currentGauge,
                   lastSuccessGauge, scrapeDuration>>

\* dev.GetNeibourIP() fails: count ip_resolve, return
ResolveFail ==
    /\ alive /\ pc = "resolve"
    /\ \E d \in Delays :
          /\ scrapeErrors' = Inc(scrapeErrors, errorTypeIPResolve)
          /\ Return("IPResolveFailure", Call("resolveAddress", FALSE, d))
    /\ UNCHANGED <<alive, mainVars, cfgVars, reads, missed, successes, scrapeRest, IPAddr, powerGauge, currentGauge, lastSuccessGauge>>

\* dev.GetNeibourIP() succeeds: dev.IPAddr = ipAddr
ResolveOk ==
    /\ alive /\ pc = "resolve"
    /\ \E d \in Delays, a \in Addrs :
          /\ IPAddr' = a
          /\ Continue(Call("resolveAddress", TRUE, d), "query")
    /\ UNCHANGED <<alive, mainVars, cfgVars, reads, missed, successes, scrapeRest, metricVars, scrapeDuration>>

\* the primary dev.QueryEchonetLite succeeds
QueryOk ==
    /\ alive /\ pc = "query"
    /\ \E d \in Delays, r \in Responses : GotResponse(r, Call("query", TRUE, d))
    /\ UNCHANGED <<alive, mainVars, cfgVars, reads, missed, successes, loopRest, IPAddr, metricVars, scrapeDuration>>

\* the primary dev.QueryEchonetLite succeeds with one property of four bytes
QueryFourBytes ==
    /\ alive /\ pc = "query"
    /\ \E d \in Delays, r \in FourByteResponses : GotResponse(r, Call("query", TRUE, d))
    /\ UNCHANGED <<alive, mainVars, cfgVars, reads, missed, successes, loopRest, IPAddr, metricVars, scrapeDuration>>

\* QueryFail that reissues the query at once
QueryFail_RetriesAtOnce ==
    /\ alive /\ pc = "query"
    /\ \E d \in Delays : Continue(Call("query", FALSE, d), "retry")
    /\ UNCHANGED <<alive, mainVars, cfgVars, reads, missed, successes, scrapeRest, IPAddr, metricVars, scrapeDuration>>

\* the primary dev.QueryEchonetLite fails: go on to time.Sleep(reAuthCooldown)
QueryFail ==
    /\ alive /\ pc = "query"
    /\ \E d \in Delays : Continue(Call("query", FALSE, d), "reAuthSleep")
    /\ UNCHANGED <<alive, mainVars, cfgVars, reads, missed, successes, scrapeRest, IPAddr, metricVars, scrapeDuration>>

\* ReAuthSleep with the sleep left out
ReAuthSleep_Skipped ==
    /\ alive /\ pc = "reAuthSleep"
    /\ pc' = "auth"
    /\ UNCHANGED <<alive, mainVars, cfgVars, reads, missed, successes, scrapeRest, IPAddr, metricVars, scrapeDuration, now, cyc>>

\* time.Sleep(reAuthCooldown)
ReAuthSleep ==
    /\ alive /\ pc = "reAuthSleep"
    /\ Continue(Call("sleep", TRUE, reAuthCooldown), "auth")
    /\ UNCHANGED <<alive, mainVars, cfgVars, reads, missed, successes, scrapeRest, IPAddr, metricVars, scrapeDuration>>

\* AuthFail that also forgets the address, to force a new resolution
AuthFail_ForgetsAddr ==
    /\ alive /\ pc = "auth"
    /\ \E d \in Delays :
          /\ scrapeErrors' = Inc(scrapeErrors, errorTypeAuth)
          /\ Return("AuthFailure", Call("authenticate", FALSE, d))
    /\ IPAddr' = ""
    /\ UNCHANGED <<alive, mainVars, cfgVars, reads, missed, successes, scrapeRest, powerGauge, currentGauge, lastSuccessGauge>>

\* dev.Authenticate() fails: count auth, return
AuthFail ==
    /\ alive /\ pc = "auth"
    /\ \E d \in Delays :
          /\ scrapeErrors' = Inc(scrapeErrors, errorTypeAuth)
          /\ Return("AuthFailure", Call("authenticate", FALSE, d))
    /\ UNCHANGED <<alive, mainVars, cfgVars, reads, missed, successes, scrapeRest, IPAddr, powerGauge, currentGauge, lastSuccessGauge>>

\* dev.Authenticate() succeeds: go on to time.Sleep(postAuthCooldown)
AuthOk ==
    /\ alive /\ pc = "auth"
    /\ \E d \in Delays : Continue(Call("authenticate", TRUE, d), "postAuthSleep")
    /\ UNCHANGED <<alive, mainVars, cfgVars, reads, missed, successes, scrapeRest, IPAddr, metricVars, scrapeDuration>>

\* time.Sleep(postAuthCooldown)
PostAuthSleep ==
    /\ alive /\ pc = "postAuthSleep"
    /\ Continue(Call("sleep", TRUE, postAuthCooldown), "retry")
    /\ UNCHANGED <<alive, mainVars, cfgVars, reads, missed, successes, scrapeRest, IPAddr, metricVars, scrapeDuration>>

\* the retried dev.QueryEchonetLite succeeds
RetryOk ==
    /\ alive /\ pc = "retry"
    /\ \E d \in Delays, r \in Responses : GotResponse(r, Call("query", TRUE, d))
    /\ UNCHANGED <<alive, mainVars, cfgVars, reads, missed, successes, loopRest, IPAddr, metricVars, scrapeDuration>>

\* parseAndSetMetrics(response, logger) and the end of scrape
Parse ==
    /\ alive /\ pc = "parse"
    /\ parseAndSetMetrics
    /\ response' = <<>>
    /\ UNCHANGED <<mainVars, cfgVars, reads, missed, loopRest, IPAddr>>

\* RetryFail that counts the failure under the auth label
RetryFail_CountsAuth ==
    /\ alive /\ pc = "retry"
    /\ \E d \in Delays :
          /\ scrapeErrors' = Inc(scrapeErrors, errorTypeAuth)
          /\ Return("QueryFailure", Call("query", FALSE, d))
    /\ UNCHANGED <<alive, mainVars, cfgVars, reads, missed, successes, scrapeRest, IPAddr, powerGauge, currentGauge, lastSuccessGauge>>

\* the retried dev.QueryEchonetLite fails: count query, return
RetryFail ==
    /\ alive /\ pc = "retry"
    /\ \E d \in Delays :
          /\ scrapeErrors' = Inc(scrapeErrors, errorTypeQuery)
          /\ Return("QueryFailure", Call("query", FALSE, d))
    /\ UNCHANGED <<alive, mainVars, cfgVars, reads, missed, successes, scrapeRest, IPAddr, powerGauge, currentGauge, lastSuccessGauge>>

-----------------------------------------------------------------------------
(* runScrapeLoop *)

MaxMissed == 2

\* A loop that takes ticks while a scrape is still running (go scrape(...))
AtSelect_WhileScraping == pc \in InCycle \cup {"select"}

\* The loop is blocked in its select statement
AtSelect == pc = "select"

\* The first scrape, before the loop
LoopFirst ==
    /\ alive /\ pc = "first"
    /\ BeginScrape
    /\ UNCHANGED <<alive, mainVars, cfgVars, reads, missed, successes, tickPending, ticks, IPAddr, metricVars, scrapeDuration, now,
                   response>>

\* LoopTick that leaves the tick it received in ticker.C
LoopTick_KeepsTick ==
    /\ alive /\ AtSelect /\ tickPending
    /\ cycles < MaxCycles
    /\ tickPending' = tickPending
    /\ BeginScrape
    /\ UNCHANGED <<alive, mainVars, cfgVars, reads, missed, successes, ticks, IPAddr, metricVars, scrapeDuration, now, response>>

\* case <-ticker.C: scrape(dev, logger)
LoopTick ==
    /\ alive /\ AtSelect /\ tickPending
    /\ cycles < MaxCycles
    /\ tickPending' = FALSE
    /\ BeginScrape
    /\ UNCHANGED <<alive, mainVars, cfgVars, reads, missed, successes, ticks, IPAddr, metricVars, scrapeDuration, now, response>>

\* case <-ctx.Done(): return (the deferred ticker.Stop() runs)
LoopDone ==
    /\ alive /\ AtSelect /\ ctxDone
    /\ pc' = "returned"
    /\ UNCHANGED <<alive, mainVars, cfgVars, reads, missed, successes, tickPending, ticks, IPAddr, metricVars, scrapeDuration,
                   now, start, response, cycles, cyc>>

\* The runtime's ticker sends on ticker.C; the send is dropped when the
\* channel already holds a tick
Tick ==
    /\ alive /\ pc # "returned"
    /\ ticks < MaxTicks
    /\ ~tickPending
    /\ tickPending' = TRUE
    /\ ticks' = ticks + 1
    /\ UNCHANGED <<alive, mainVars, cfgVars, reads, missed, successes, pc, IPAddr, metricVars, scrapeDuration, now, start, response, cycles, cyc>>

\* The runtime's ticker fires while ticker.C still holds a tick: the tick is
\* dropped
TickDropped ==
    /\ alive /\ pc # "returned"
    /\ tickPending
    /\ missed < MaxMissed
    /\ missed' = missed + 1
    /\ UNCHANGED <<alive, mainVars, cfgVars, reads, successes, pc, tickPending, ticks, IPAddr,
                   metricVars, scrapeDuration, now, start, response, cycles, cyc>>

-----------------------------------------------------------------------------
(* main, up to <-stopChan *)

\* intervalSec, err := strconv.Atoi(intervalStr), and the floor below it
ParseInterval ==
    /\ alive /\ mainPc = "config"
    /\ intervalSec' = IntervalSec(intervalStr)
    /\ mainPc' = "parsed"
    /\ UNCHANGED <<alive, ctxDone, serverUp, intervalStr, interval, reads, missed, successes, pc,
                   tickPending, ticks, IPAddr, metricVars, scrapeDuration,
                   now, start, response, cycles, cyc>>

\* go runScrapeLoop(ctx, dev, time.Duration(intervalSec)*time.Second, logger),
\* whose time.NewTicker(interval) panics unless interval is positive, and the
\* start of the HTTP server
StartLoop ==
    /\ alive /\ mainPc = "parsed"
    /\ interval' = Duration(intervalSec)
    /\ mainPc' = "wait"
    /\ serverUp' = TRUE
    /\ IF Int64Positive(interval')
       THEN pc' = "first" /\ UNCHANGED alive
       ELSE pc' = "panicked" /\ alive' = FALSE
    /\ UNCHANGED <<ctxDone, intervalStr, intervalSec, reads, missed, successes,
                   tickPending, ticks, IPAddr, metricVars, scrapeDuration,
                   now, start, response, cycles, cyc>>

-----------------------------------------------------------------------------
(* main, from <-stopChan on *)

\* <-stopChan receives SIGINT or SIGTERM; cancel()
MainCancel ==
    /\ alive /\ mainPc = "wait"
    /\ mainPc' = "shutdown"
    /\ ctxDone' = TRUE
    /\ UNCHANGED <<alive, serverUp, cfgVars, reads, missed, successes, pc, tickPending, ticks, IPAddr,
                   metricVars, scrapeDuration,
                   now, start, response, cycles, cyc>>

\* server.Shutdown(ctxShut) returns
MainShutdown ==
    /\ alive /\ mainPc = "shutdown"
    /\ mainPc' = "stopped"
    /\ serverUp' = FALSE
    /\ UNCHANGED <<alive, ctxDone, cfgVars, reads, missed, successes, pc, tickPending, ticks, IPAddr,
                   metricVars, scrapeDuration,
                   now, start, response, cycles, cyc>>

\* main returns: the process exits, whatever its goroutines are doing
MainExit ==
    /\ alive /\ mainPc = "stopped"
    /\ mainPc' = "exited"
    /\ alive' = FALSE
    /\ UNCHANGED <<ctxDone, serverUp, cfgVars, reads, missed, successes, pc, tickPending, ticks, IPAddr,
                   metricVars, scrapeDuration,
                   now, start, response, cycles, cyc>>

-----------------------------------------------------------------------------
Next ==
    \/ LoopFirst \/ LoopTick \/ LoopDone \/ Tick
    \/ ResolveFail \/ ResolveOk
    \/ QueryOk \/ QueryFail
    \/ ReAuthSleep \/ AuthFail \/ AuthOk \/ PostAuthSleep
    \/ RetryOk \/ RetryFail \/ Parse
    \/ MainCancel \/ MainShutdown \/ MainExit

Spec == Init /\ [][Next]_vars

-----------------------------------------------------------------------------
(* The start of main, for every interval the operator may configure *)

MaxIntervalLen == 2

IntervalChars == {"-", "0", "1", "9", "x"}

\* Intervals that need more than a few characters: the default, a signed one,
\* the ends of the int range, and numbers of seconds around 1<<63 and 1<<64
\* nanoseconds
LongIntervals ==
    { DefaultInterval,
      <<"+", "3", "0", "0">>,
      <<"3", "6", "0", "0">>,
      <<"9", "2", "2", "3", "3", "7", "2", "0", "3", "6">>,
      <<"9", "2", "2", "3", "3", "7", "2", "0", "3", "7">>,
      <<"1", "8", "4", "4", "6", "7", "4", "4", "0", "7", "3">>,
      <<"1", "8", "4", "4", "6", "7", "4", "4", "0", "7", "4">>,
      <<"9", "2", "2", "3", "3", "7", "2", "0", "3", "6", "8", "5", "4", "7", "7", "5", "8", "0", "7">>,
      <<"9", "2", "2", "3", "3", "7", "2", "0", "3", "6", "8", "5", "4", "7", "7", "5", "8", "0", "8">>,
      <<"-", "9", "2", "2", "3", "3", "7", "2", "0", "3", "6", "8", "5", "4", "7", "7", "5", "8", "0", "8">> }

IntervalStrings ==
    LongIntervals \cup UNION { [1..n -> IntervalChars] : n \in 0..MaxIntervalLen }

IntervalInit ==
    /\ alive = TRUE
    /\ mainPc = "config"
    /\ intervalStr \in IntervalStrings
    /\ intervalSec = Zero96
    /\ interval = Int64Bits(Zero96)
    /\ reads = 0
    /\ missed = 0
    /\ successes = 0
    /\ ctxDone = FALSE
    /\ serverUp = FALSE
    /\ pc = "unstarted"
    /\ tickPending = FALSE
    /\ ticks = 0
    /\ IPAddr \in {""} \cup Addrs
    /\ powerGauge = GaugeZero
    /\ currentGauge = [l \in {} |-> 0]
    /\ lastSuccessGauge = 0
    /\ scrapeDuration = [count |-> 0, sum |-> 0]
    /\ scrapeErrors = [t \in ErrorTypes |-> 0]
    /\ now = 0
    /\ start = 0
    /\ response = <<>>
    /\ cycles = 0
    /\ cyc = [calls |-> <<>>, outcome |-> "None", gotResponse |-> FALSE,
              props |-> 0, recognized |-> 0,
              ctx0 |-> FALSE, ip0 |-> "", errs0 |-> [t \in ErrorTypes |-> 0],
              power0 |-> GaugeZero, current0 |-> [l \in {} |-> 0], last0 |-> 0, count0 |-> 0]

IntervalNext == ParseInterval \/ StartLoop

IntervalSpec == IntervalInit /\ [][IntervalNext]_vars

-----------------------------------------------------------------------------
(* The HTTP server: GET /metrics, served by promhttp.Handler() on a goroutine
   of its own.  The handler gathers the registered metrics with atomic loads;
   it shares no lock, channel or call with runScrapeLoop. *)

MaxReads == 1

\* A handler that waits for the running scrape to finish
Read_WhenIdle ==
    /\ alive /\ serverUp /\ pc \notin InCycle
    /\ reads < MaxReads
    /\ reads' = reads + 1
    /\ UNCHANGED <<alive, mainVars, cfgVars, missed, successes, pc, tickPending, ticks, IPAddr,
                   metricVars, scrapeDuration, now, start, response, cycles, cyc>>

\* One GET /metrics is served
Read ==
    /\ alive /\ serverUp
    /\ reads < MaxReads
    /\ reads' = reads + 1
    /\ UNCHANGED <<alive, mainVars, cfgVars, missed, successes, pc, tickPending, ticks, IPAddr,
                   metricVars, scrapeDuration, now, start, response, cycles, cyc>>

\* The loop and the server while main waits for a signal
ReadNext ==
    \/ Read
    \/ LoopFirst \/ LoopTick \/ Tick
    \/ ResolveFail \/ ResolveOk
    \/ QueryOk \/ QueryFail
    \/ ReAuthSleep \/ AuthFail \/ AuthOk \/ PostAuthSleep
    \/ RetryOk \/ RetryFail \/ Parse

ReadSpec == Init /\ [][ReadNext]_vars

-----------------------------------------------------------------------------
(* The loop and its ticker while main waits for a signal, with the ticks that
   fire while ticker.C is full *)

TickNext ==
    \/ Tick \/ TickDropped
    \/ LoopFirst \/ LoopTick
    \/ ResolveFail \/ ResolveOk
    \/ QueryOk \/ QueryFail
    \/ ReAuthSleep \/ AuthFail \/ AuthOk \/ PostAuthSleep
    \/ RetryOk \/ RetryFail \/ Parse

TickSpec == Init /\ [][TickNext]_vars

-----------------------------------------------------------------------------
(* The first cycle on the responses of four bytes *)

DecodeNext == LoopFirst \/ ResolveOk \/ QueryFourBytes \/ Parse

DecodeSpec == Init /\ [][DecodeNext]_vars

-----------------------------------------------------------------------------
(* Properties *)

Last(q) == q[Len(q)]

\* The calls of the cycle after its address resolution, if it had one
AfterResolve(calls) ==
    IF calls # <<>> /\ calls[1].op = "resolveAddress" THEN Tail(calls) ELSE calls

\* The cycle that was started last is over: scrape is no longer running
CycleOver == cycles > 0 /\ pc \notin InCycle

\* The label of the error counter an outcome is counted under
KindOf(o) ==
    CASE o = "IPResolveFailure" -> errorTypeIPResolve
      [] o = "AuthFailure" -> errorTypeAuth
      [] o = "QueryFailure" -> errorTypeQuery
      [] o = "ParseFailure" -> errorTypeParse
      [] OTHER -> "none"

\* The error counters a cycle of outcome o leaves behind
ExpectedErrors(o) ==
    [t \in ErrorTypes |-> cyc.errs0[t] + (IF t = KindOf(o) THEN 1 ELSE 0)]

\* C1: every scrape cycle that is over has produced exactly one of the five
\* outcomes; a failure has incremented the error counter of its kind by one
\* and no other counter, a Success has incremented none.
C1_ExactlyOneOutcome ==
    CycleOver =>
        /\ cyc.outcome \in Outcomes
        /\ scrapeErrors = ExpectedErrors(cyc.outcome)

\* C2: a cycle whose address resolution failed made no other call (no query,
\* no authenticate, no sleep), is over, and its outcome is IPResolveFailure.
C2_ResolveFailureEndsCycle ==
    (\E i \in 1..Len(cyc.calls) : cyc.calls[i].op = "resolveAddress" /\ ~cyc.calls[i].ok) =>
        /\ Len(cyc.calls) = 1
        /\ cyc.outcome = "IPResolveFailure"
        /\ pc \notin InCycle

C2_Witness ==
    /\ cycles = 2
    /\ cyc.outcome = "IPResolveFailure"
    /\ scrapeErrors[errorTypeIPResolve] = 2

\* A step in which the device client's address resolution is invoked
ResolveInvoked ==
    /\ cyc'.calls # cyc.calls
    /\ cyc'.calls # <<>>
    /\ Last(cyc'.calls).op = "resolveAddress"

\* C3: address resolution is invoked only in a cycle that started without a
\* known address; a known address is never changed or forgotten, so no later
\* cycle resolves again, and the cycle after an AuthFailure starts at the
\* primary query.
C3_AddressResolvedOnce ==
    [][ /\ ResolveInvoked => (cyc.ip0 = "" /\ IPAddr = "")
        /\ IPAddr # "" => IPAddr' = IPAddr
        /\ (cycles' = cycles + 1 /\ IPAddr # "") => pc' = "query"
        /\ (cycles' = cycles + 1 /\ cyc.outcome = "AuthFailure") => pc' = "query" ]_vars

C3_Witness ==
    /\ cycles = 2
    /\ scrapeErrors[errorTypeAuth] = 1
    /\ cyc.ip0 # ""
    /\ pc = "query"
    /\ cyc.calls = <<>>

\* C4: a cycle whose re-authentication failed is over with outcome AuthFailure;
\* after its failed primary query it slept once, for 5 seconds, from the return
\* of the query to the call of authenticate, and it made no further call (no
\* 2-second sleep, no second query).
C4_AuthFailureAfterOneCooldown ==
    (\E i \in 1..Len(cyc.calls) : cyc.calls[i].op = "authenticate" /\ ~cyc.calls[i].ok) =>
        LET c == AfterResolve(cyc.calls) IN
        /\ cyc.outcome = "AuthFailure"
        /\ pc \notin InCycle
        /\ Len(c) = 3
        /\ c[1].op = "query" /\ ~c[1].ok
        /\ c[2].op = "sleep" /\ c[2].at = c[1].ret /\ c[2].ret = c[2].at + 5
        /\ c[3].op = "authenticate" /\ c[3].at = c[2].ret

C4_Witness ==
    /\ cyc.outcome = "AuthFailure"
    /\ Len(cyc.calls) = 4
    /\ cyc.calls[3].op = "sleep"

\* C5: a cycle whose retried query failed is over with outcome QueryFailure;
\* it slept 5 seconds between the failed primary query and authenticate, then
\* 2 seconds between the successful authenticate and the retried query, and
\* the auth error counter is as it was at the start of the cycle.
C5_QueryFailureAfterBothCooldowns ==
    LET c == AfterResolve(cyc.calls) IN
    (\E i \in 2..Len(c) : c[i].op = "query" /\ ~c[i].ok) =>
        /\ cyc.outcome = "QueryFailure"
        /\ pc \notin InCycle
        /\ Len(c) = 5
        /\ c[1].op = "query" /\ ~c[1].ok
        /\ c[2].op = "sleep" /\ c[2].at = c[1].ret /\ c[2].ret = c[2].at + 5
        /\ c[3].op = "authenticate" /\ c[3].ok /\ c[3].at = c[2].ret
        /\ c[4].op = "sleep" /\ c[4].at = c[3].ret /\ c[4].ret = c[4].at + 2
        /\ c[5].op = "query" /\ c[5].at = c[4].ret
        /\ scrapeErrors[errorTypeAuth] = cyc.errs0[errorTypeAuth]
        /\ scrapeErrors[errorTypeQuery] = cyc.errs0[errorTypeQuery] + 1

C5_Witness ==
    /\ cyc.outcome = "QueryFailure"
    /\ Len(AfterResolve(cyc.calls)) = 5
    /\ scrapeErrors[errorTypeQuery] = 1

\* C6: once a response with no recognized property has been parsed, the
\* outcome is ParseFailure, the power and current readings are those of the
\* start of the cycle, and so is the last-success timestamp.
C6_NothingRecognizedIsParseFailure ==
    (cyc.gotResponse /\ cyc.recognized = 0 /\ pc # "parse") =>
        /\ cyc.outcome = "ParseFailure"
        /\ powerGauge = cyc.power0
        /\ currentGauge = cyc.current0
        /\ lastSuccessGauge = cyc.last0
        /\ scrapeErrors = ExpectedErrors("ParseFailure")

C6_Witness ==
    /\ cyc.outcome = "ParseFailure"
    /\ cyc.props = 2
    /\ cycles = 2
    /\ cyc.power0 # GaugeZero
    /\ cyc.last0 # 0

\* C7: every cycle that is over has returned to the scheduler loop with one of
\* the five outcomes, and the process was not aborted by it.
C7_CycleReturnsToLoop ==
    CycleOver =>
        /\ cyc.outcome \in Outcomes
        /\ pc \in {"select", "returned"}

\* C8: at most one cycle is active: the cycles started and the cycles that
\* have observed their duration differ by one while scrape runs and are equal
\* otherwise, so a cycle starts only after the one before it has ended.
C8_CyclesNeverOverlap ==
    cycles - scrapeDuration.count = (IF pc \in InCycle THEN 1 ELSE 0)

C8_Witness ==
    /\ cycles = 2
    /\ pc = "postAuthSleep"
    /\ tickPending

\* C9: no cycle taken from the select statement starts after the context of
\* the loop has been cancelled.
C9_NoCycleAfterCancel ==
    ~(cycles >= 2 /\ cyc.ctx0)

\* C10: a cycle that started before the shutdown signal cancelled the context
\* is over (it has its outcome and has observed its duration) by the time the
\* serving path is stopped and the process exits.
C10_ActiveCycleCompletes ==
    (mainPc \in {"stopped", "exited"} /\ cycles > 0 /\ ~cyc.ctx0) =>
        /\ pc \notin InCycle
        /\ cyc.outcome \in Outcomes
        /\ scrapeDuration.count = cycles

\* C11: the first cycle starts without a tick, every later cycle takes a tick
\* from ticker.C, and when nothing more can happen after the context was
\* cancelled, the loop has returned, the cycle that was in flight being over.
C11_LoopReturnsAfterCancel ==
    /\ (cycles = 0) = (pc = "first")
    /\ cycles <= 1 + ticks
    /\ (ctxDone /\ cycles > 0 /\ ~ENABLED Next) => (pc = "returned" /\ cyc.outcome \in Outcomes)

\* A number of nanoseconds held in an int64, as a number without a bound
Widen(b) == b \o <<0, 0, 0, 0>>

\* The interval configured is a decimal number of seconds, 10 or more
NumericTenOrMore(s) ==
    LET a == Atoi(s) IN ~a.err /\ ~a.neg /\ ~Less(a.mag, Small(10))

\* C12: once main has started the loop, the period handed to runScrapeLoop is 10
\* seconds or more, whatever the interval string was, and it is the configured
\* number of seconds when that is a number of 10 or more.
C12_PeriodAtLeastTenSeconds ==
    mainPc = "wait" =>
        /\ ~Int64Negative(interval)
        /\ ~Less(Widen(interval), Times1e9(Small(10)))
        /\ NumericTenOrMore(intervalStr) =>
               Widen(interval) = Times1e9(Atoi(intervalStr).mag)

\* What holds of C12: the number of seconds main computes is 10 or more, and
\* is the configured number when that is 10 or more
C12_SecondsAtLeastTen ==
    mainPc \in {"parsed", "wait"} =>
        /\ ~Less(intervalSec, Small(10))
        /\ NumericTenOrMore(intervalStr) => intervalSec = Atoi(intervalStr).mag
        /\ ~NumericTenOrMore(intervalStr) => intervalSec = Small(60)

Readings == <<powerGauge, currentGauge, lastSuccessGauge>>
ReadingsBefore == <<cyc.power0, cyc.current0, cyc.last0>>

FailureOutcomes == {"IPResolveFailure", "AuthFailure", "QueryFailure", "ParseFailure"}

\* C13: the readings and the last-success timestamp are those from before the
\* cycle for as long as the outcome of the cycle is not Success; a cycle that
\* ends in one of the four failures has moreover counted its error.
C13_ReadingsChangeOnlyInSuccess ==
    cycles > 0 =>
        /\ cyc.outcome # "Success" => Readings = ReadingsBefore
        /\ cyc.outcome \in FailureOutcomes =>
               scrapeErrors = Inc(cyc.errs0, KindOf(cyc.outcome))

\* What holds of C13: the cycles that end in one of the four failures
C13_FailureLeavesReadings ==
    (cycles > 0 /\ cyc.outcome \in FailureOutcomes) =>
        /\ Readings = ReadingsBefore
        /\ scrapeErrors = Inc(cyc.errs0, KindOf(cyc.outcome))

RECURSIVE SumErrors(_)
SumErrors(T) ==
    IF T = {} THEN 0
    ELSE LET t == CHOOSE x \in T : TRUE IN scrapeErrors[t] + SumErrors(T \ {t})

\* C14: whenever no cycle is running, the histogram holds one observation for
\* each cycle started; when all of them have ended in one of the five outcomes,
\* that number is the number of Success cycles plus the sum of the four error
\* counters.
C14_OneObservationPerCycle ==
    /\ pc \notin InCycle => scrapeDuration.count = cycles
    /\ pc \in InCycle => scrapeDuration.count = cycles - 1
    /\ pc \in {"select", "returned"} =>
           scrapeDuration.count = successes + SumErrors(ErrorTypes)

\* Two cycles are over, a Success and a failure, and the histogram holds two
\* observations
C14_Witness ==
    /\ pc = "select" /\ cycles = 2
    /\ successes = 1 /\ SumErrors(ErrorTypes) = 1
    /\ scrapeDuration.count = 2

\* The reference of the decoder: b read as a big-endian unsigned integer, the
\* most significant byte first, as a number without a bound
RECURSIVE BigEndianFrom(_, _, _)
BigEndianFrom(b, n, i) ==
    IF i > Len(b) THEN n ELSE BigEndianFrom(b, MulAdd(n, 256, b[i]), i + 1)

BigEndian(b) == BigEndianFrom(b, Zero96, 1)

\* The number a power reading stands for
Watts(g) == MulAdd(MulAdd(Small(g.hi), 256, g.lo \div 256), 256, g.lo % 256)

\* The number of tenths of an ampere a current reading stands for
Tenths(g) == Small(g.whole * 10 + g.tenths)

\* C15: when parseAndSetMetrics decodes a response of one recognized property
\* with a payload of four bytes, the power reading is the payload read as one
\* big-endian unsigned integer, unscaled, and the readings of phase r and of
\* phase t are a tenth of bytes 0-1 and of bytes 2-3 read as big-endian
\* unsigned integers.
C15_DecoderMatchesReference ==
    [][ \A e \in {EpcPower, EpcCurrent}, b \in [1..4 -> PayloadBytes] :
          (pc = "parse" /\ response = <<[EPC |-> e, EDT |-> b]>> /\ pc' # "parse") =>
              /\ cyc'.outcome = "Success"
              /\ e = EpcPower =>
                     /\ Watts(powerGauge') = BigEndian(b)
                     /\ currentGauge' = currentGauge
              /\ e = EpcCurrent =>
                     /\ Tenths(currentGauge'["r"]) = BigEndian(SubSeq(b, 1, 2))
                     /\ Tenths(currentGauge'["t"]) = BigEndian(SubSeq(b, 3, 4))
                     /\ currentGauge'["r"].tenths \in 0..9
                     /\ currentGauge'["t"].tenths \in 0..9
                     /\ powerGauge' = powerGauge ]_vars

\* The payload ff ff ff ff was decoded as power: 4294967295 W
C15_Witness ==
    /\ pc = "select" /\ cyc.outcome = "Success"
    /\ powerGauge = [hi |-> 65535, lo |-> 65535]
    /\ Watts(powerGauge) = <<255, 255, 255, 255, 0, 0, 0, 0, 0, 0, 0, 0>>

\* Everything but the number of reads served
exceptReads == <<alive, mainVars, cfgVars, missed, successes, pc, tickPending, ticks, IPAddr,
                 metricVars, scrapeDuration, now, start, response, cycles, cyc>>

C16_ReadAlwaysPossible == (alive /\ serverUp /\ reads < MaxReads) => ENABLED Read

Decoded(r) ==
    ParseLoop(r, [power |-> GaugeZero, current |-> [l \in {} |-> 0],
                  foundData |-> FALSE, panicked |-> FALSE])

HasPower(r) == \E i \in 1..Len(r) : r[i].EPC = EpcPower

\* The values r decodes to are the ones the gauges hold from an earlier Success
SameAsBefore(r) ==
    /\ lastSuccessGauge # 0
    /\ ~Decoded(r).panicked /\ Decoded(r).foundData
    /\ HasPower(r) => Decoded(r).power = powerGauge
    /\ \A l \in DOMAIN Decoded(r).current :
           l \in DOMAIN currentGauge /\ Decoded(r).current[l] = currentGauge[l]

\* C17: when parseAndSetMetrics decodes a response whose values are the ones an
\* earlier successful cycle has left in the gauges, the cycle is a Success that
\* leaves power and both currents as they are, sets the last-success
\* timestamp to the time of this cycle, and adds one observation to the
\* histogram.
C17_RepeatedSuccessIsIdempotent ==
    [][ (pc = "parse" /\ pc' # "parse" /\ SameAsBefore(response)) =>
            /\ cyc'.outcome = "Success"
            /\ powerGauge' = powerGauge /\ currentGauge' = currentGauge
            /\ lastSuccessGauge' = now' /\ now' > start /\ start >= lastSuccessGauge
            /\ scrapeDuration'.count = scrapeDuration.count + 1 ]_vars

\* The second cycle was a Success with the readings of the first: the readings
\* are those from before the cycle, the timestamp is later
C17_Witness ==
    /\ cycles = 2 /\ pc = "select" /\ cyc.outcome = "Success"
    /\ cyc.last0 # 0 /\ cyc.power0 # GaugeZero /\ DOMAIN cyc.current0 = {"r", "t"}
    /\ powerGauge = cyc.power0 /\ currentGauge = cyc.current0
    /\ lastSuccessGauge > cyc.last0
    /\ scrapeDuration.count = cyc.count0 + 1

\* The positions of the calls of op in the history of the cycle
CallsOf(op) == {i \in 1..Len(cyc.calls) : cyc.calls[i].op = op}

\* The call at position i is a sleep of d seconds
SleptAt(i, d) ==
    /\ i \in CallsOf("sleep")
    /\ cyc.calls[i].ret = cyc.calls[i].at + d

\* C18: in the history of a cycle, each call starts when the one before it
\* has returned; resolveAddress occurs at most once and comes first; there
\* are at most two queries and one authenticate; authenticate comes right
\* after a 5-second sleep that comes right after the failed first query; a
\* second query comes right after a 2-second sleep that comes right after a
\* successful authenticate; there is no other sleep; and a successful first
\* query is the last call of its cycle.
C18_CallsBoundedAndOrdered ==
    LET c == cyc.calls
        q == CallsOf("query")
        first == IF q = {} THEN 0 ELSE CHOOSE i \in q : \A j \in q : i <= j
    IN  /\ \A i \in 2..Len(c) : c[i].at = c[i - 1].ret
        /\ CallsOf("resolveAddress") \subseteq {1}
        /\ Cardinality(q) <= 2
        /\ Cardinality(CallsOf("authenticate")) <= 1
        /\ q # {} => first = Cardinality(CallsOf("resolveAddress")) + 1
        /\ \A i \in CallsOf("authenticate") :
               i = first + 2 /\ SleptAt(i - 1, reAuthCooldown) /\ ~c[first].ok
        /\ \A i \in q \ {first} :
               /\ i = first + 4 /\ SleptAt(i - 1, postAuthCooldown)
               /\ i - 2 \in CallsOf("authenticate") /\ c[i - 2].ok
        /\ \A i \in CallsOf("sleep") :
               \/ i = first + 1 /\ ~c[first].ok /\ SleptAt(i, reAuthCooldown)
               \/ i = first + 3 /\ i - 1 \in CallsOf("authenticate") /\ c[i - 1].ok
                  /\ SleptAt(i, postAuthCooldown)
        /\ (q # {} /\ c[first].ok) => Len(c) = first
        /\ \A i \in CallsOf("resolveAddress") \cup CallsOf("authenticate") :
               ~c[i].ok => Len(c) = i

\* A cycle made every call it can make: resolveAddress, the query, the 5-second
\* sleep, authenticate, the 2-second sleep and the second query
C18_Witness ==
    /\ pc \notin InCycle
    /\ Len(cyc.calls) = 6
    /\ cyc.calls[1].op = "resolveAddress"
    /\ cyc.calls[6].op = "query" /\ cyc.calls[6].ret =
           cyc.calls[2].at + 3 * IoSeconds + reAuthCooldown + postAuthCooldown

\* The cycle was recovered: the first query failed, authenticate succeeded,
\* and the second query returned a response with a recognized property, which
\* parseAndSetMetrics has been given
Recovered ==
    /\ cycles > 0 /\ pc # "parse"
    /\ cyc.gotResponse /\ cyc.recognized > 0
    /\ CallsOf("authenticate") # {}

\* C19: a recovered cycle is a Success: the timestamp is set to its end, no
\* error counter has moved, and both cooldowns have elapsed, 5 seconds and
\* then 2.
C19_RecoveredCycleIsSuccess ==
    Recovered =>
        /\ cyc.outcome = "Success"
        /\ lastSuccessGauge = now
        /\ scrapeErrors = cyc.errs0
        /\ \E i \in CallsOf("authenticate") :
               SleptAt(i - 1, reAuthCooldown) /\ SleptAt(i + 1, postAuthCooldown)

\* What holds of C19: the recovered cycles whose response decodes
C19_RecoveredAndDecoded ==
    (Recovered /\ cyc.outcome # "Panic") =>
        /\ cyc.outcome = "Success"
        /\ lastSuccessGauge = now
        /\ scrapeErrors = cyc.errs0
        /\ \E i \in CallsOf("authenticate") :
               SleptAt(i - 1, reAuthCooldown) /\ SleptAt(i + 1, postAuthCooldown)

\* The cycles that have run to their end
CyclesRun == IF pc \in InCycle THEN cycles - 1 ELSE cycles

\* C20: as long as the address is unknown, every cycle that has run was counted
\* under ip_resolve, and the next cycle starts with resolveAddress, which it
\* calls once: a failure leaves the address unknown, counts and ends the
\* cycle, a success stores the address.  Once the address is known it stays,
\* and the ip_resolve counter stays what it was when the resolution succeeded:
\* the number of cycles that ran before.
C20_ResolutionRetriedEachCycle ==
    [][ /\ IPAddr = "" => scrapeErrors[errorTypeIPResolve] = CyclesRun
        /\ (IPAddr = "" /\ cycles' = cycles + 1) => pc' = "resolve"
        /\ (IPAddr = "" /\ pc = "resolve" /\ pc' # "resolve") =>
               /\ Len(cyc'.calls) = 1 /\ cyc'.calls[1].op = "resolveAddress"
               /\ IF cyc'.calls[1].ok
                  THEN /\ IPAddr' # "" /\ pc' = "query"
                       /\ scrapeErrors' = scrapeErrors
                       /\ scrapeErrors[errorTypeIPResolve] = cycles - 1
                  ELSE /\ IPAddr' = "" /\ pc' = "select"
                       /\ cyc'.outcome = "IPResolveFailure"
                       /\ scrapeErrors' = Inc(scrapeErrors, errorTypeIPResolve)
        /\ IPAddr # "" =>
               /\ IPAddr' = IPAddr
               /\ scrapeErrors'[errorTypeIPResolve] = scrapeErrors[errorTypeIPResolve]
      ]_vars

\* The invariant half of C20
C20_CountsCyclesWithoutAddress ==
    IPAddr = "" => scrapeErrors[errorTypeIPResolve] = CyclesRun

\* The first cycle failed to resolve the address, the second one resolved it
\* and went on: ip_resolve counts the one cycle before the success
C20_Witness ==
    /\ cycles = 2 /\ pc \notin InCycle
    /\ cyc.ip0 = "" /\ IPAddr # ""
    /\ cyc.calls[1].op = "resolveAddress" /\ cyc.calls[1].ok
    /\ scrapeErrors[errorTypeIPResolve] = 1

HasCurrent(r) == \E i \in 1..Len(r) : r[i].EPC = EpcCurrent

\* r carries one of the two recognized properties and not the other
OnlyOneRecognized(r) == HasPower(r) # HasCurrent(r)

\* The step in which parseAndSetMetrics runs on the response r
Parses(r) == pc = "parse" /\ response = r /\ pc' # "parse"

\* What a Success with one of the two properties leaves behind
PartialSuccess(r) ==
    /\ cyc'.outcome = "Success"
    /\ HasPower(r) => currentGauge' = currentGauge
    /\ HasCurrent(r) => powerGauge' = powerGauge
    /\ scrapeErrors' = scrapeErrors
    /\ lastSuccessGauge' = now'

\* C21: when parseAndSetMetrics runs on a response with one of the two
\* recognized properties and not the other, the cycle is a Success, the
\* readings of the missing property are what they were, no error counter moves
\* and the last-success timestamp is the time of the cycle; and a response of
\* unrecognized properties only changes no reading.
C21_PartialResponseIsSuccess ==
    [][ \A r \in Responses :
          /\ (Parses(r) /\ OnlyOneRecognized(r)) => PartialSuccess(r)
          /\ (Parses(r) /\ Recognized(r) = {}) =>
                 powerGauge' = powerGauge /\ currentGauge' = currentGauge ]_vars

\* What holds of C21: the partial responses whose payloads decode
C21_PartialAndDecoded ==
    [][ \A r \in Responses :
          /\ (Parses(r) /\ OnlyOneRecognized(r) /\ ~Decoded(r).panicked) =>
                 /\ PartialSuccess(r)
                 /\ HasPower(r) => powerGauge' = Decoded(r).power
                 /\ HasCurrent(r) => currentGauge' = Decoded(r).current
          /\ (Parses(r) /\ Recognized(r) = {}) =>
                 powerGauge' = powerGauge /\ currentGauge' = currentGauge ]_vars

\* The ticks that ticker.C holds: one or none
Pending == IF tickPending THEN 1 ELSE 0

\* C22: every tick delivered into ticker.C has started one cycle or is the one
\* tick still pending, however many ticks were dropped meanwhile: so at most
\* one cycle can start without a new tick, and the cycles started never
\* exceed one plus the ticks delivered.
C22_MissedTicksDoNotAccumulate ==
    /\ cycles + Pending = ticks + (IF cycles > 0 THEN 1 ELSE 0)
    /\ cycles <= 1 + ticks
    /\ (pc = "select" /\ ~tickPending) => ~ENABLED LoopTick

\* Ticks were dropped while one tick was pending; the one catch-up cycle has
\* run, and the loop is back at its select with no tick left
C22_Witness ==
    /\ missed = MaxMissed
    /\ ticks = 1 /\ cycles = 2
    /\ pc = "select" /\ ~tickPending
    /\ cyc.outcome \in Outcomes

====
